---------------------------- MODULE Spec2Model ----------------------------
(***************************************************************************)
(* A model of cloudwatch_dump.py (cloudwatch-dump).                        *)
(*                                                                         *)
(* The module holds four state machines over disjoint groups of variables: *)
(*   SpecTag    metric_to_tag, applied to bounded metrics and name tables  *)
(*   SpecPages  get_metrics, paging through list_metrics                   *)
(*   SpecTime   get_time_range without an explicit time                    *)
(*   Spec       main: options, get_data's lazy pipeline and the two sinks  *)
(* A string of the program is a sequence of one-character strings, so that *)
(* split, replace, join and comparison are computed character by character.*)
(***************************************************************************)
EXTENDS Integers, Sequences, FiniteSets, TLC

VARIABLES
    \* metric_to_tag: position, arguments, buf before the join, return value
    tag_pc, tag_metric, tag_statistics, tag_ec2_names, tag_buf, tag_result,
    \* get_metrics: position, the pages the service holds, the requests it
    \* received, and the locals buf, next_token, result; the return value
    gm_pc, gm_pages, gm_requests, gm_buf, gm_next_token, gm_result, gm_return,
    \* get_time_range: position, arguments, the clock, the returned pair
    tr_pc, tr_time_str, tr_interval, tr_now, tr_return,
    \* main: position, the parsed options, the window, the fetched metrics,
    \* the name table and the return value (<<>> until main returns)
    pc, options, window, metrics, ec2_names, ret,
    \* the order in which each metric's dimensions dict gives its keys
    keys_order,
    \* get_data's generator: the number of pairs whose query has been issued
    \* and the datapoints of the current pair's response not yet yielded
    pair, pending,
    \* what main has done to the outside: the statistics queries, the lines
    \* printed, the calls on the InfluxDB client
    queries, stdout, influx,
    \* history: the datapoints the queries returned, the datapoints handed to
    \* a sink, the outcome of create_database, whether a query has raised
    returned, handled, create_outcome, query_failed

tagVars == <<tag_pc, tag_metric, tag_statistics, tag_ec2_names, tag_buf, tag_result>>
pageVars == <<gm_pc, gm_pages, gm_requests, gm_buf, gm_next_token, gm_result, gm_return>>
timeVars == <<tr_pc, tr_time_str, tr_interval, tr_now, tr_return>>

mainVars ==
    <<pc, options, window, metrics, ec2_names, ret, keys_order, pair, pending,
      queries, stdout, influx, returned, handled, create_outcome, query_failed>>

vars == <<tagVars, pageVars, timeVars, mainVars>>

\* create_database has not been called.
NotCalled == [raises |-> "None", reason |-> "not called"]

\* Python's None, and the truth value of a string or None.
None == "None"
truthy(x) == x # None /\ x # ""

\* The state of a machine that a specification does not run.
IdleTag ==
    /\ tag_pc = "idle"
    /\ tag_metric = None
    /\ tag_statistics = None
    /\ tag_ec2_names = <<>>
    /\ tag_buf = <<>>
    /\ tag_result = <<>>

IdlePages ==
    /\ gm_pc = "idle"
    /\ gm_pages = <<>>
    /\ gm_requests = <<>>
    /\ gm_buf = <<>>
    /\ gm_next_token = None
    /\ gm_result = None
    /\ gm_return = None

IdleTime ==
    /\ tr_pc = "idle"
    /\ tr_time_str = None
    /\ tr_interval = 0
    /\ tr_now = 0
    /\ tr_return = None

IdleMain ==
    /\ pc = "idle"
    /\ options = None
    /\ window = None
    /\ metrics = <<>>
    /\ ec2_names = <<>>
    /\ ret = <<>>
    /\ keys_order = <<>>
    /\ pair = 0
    /\ pending = <<>>
    /\ queries = <<>>
    /\ stdout = <<>>
    /\ influx = <<>>
    /\ returned = 0
    /\ handled = 0
    /\ create_outcome = NotCalled
    /\ query_failed = FALSE

(***************************************************************************)
(* Strings                                                                 *)
(***************************************************************************)

\* The characters the model's strings use, in ascending code point order.
CodePoints ==
    <<"-", ".", "/", "1", "2", "3", "4",
      "A", "C", "E", "I", "P", "S", "U", "W", "_",
      "a", "b", "c", "d", "e", "g", "i", "l", "m", "n", "o", "p", "r", "s",
      "t", "u", "v", "w", "z">>

ord(c) == CHOOSE i \in 1..Len(CodePoints) : CodePoints[i] = c

\* str.__lt__: comparison by code point, a proper prefix sorting first.
RECURSIVE str_lt(_, _)
str_lt(a, b) ==
    IF b = <<>> THEN FALSE
    ELSE IF a = <<>> THEN TRUE
    ELSE IF Head(a) = Head(b) THEN str_lt(Tail(a), Tail(b))
    ELSE ord(Head(a)) < ord(Head(b))

\* s.split('/'): the pieces between the separators, empty pieces kept.
RECURSIVE split(_)
split(s) ==
    IF \A i \in 1..Len(s) : s[i] # "/" THEN <<s>>
    ELSE LET i == CHOOSE k \in 1..Len(s) :
                      s[k] = "/" /\ \A j \in 1..(k - 1) : s[j] # "/"
         IN  <<SubSeq(s, 1, i - 1)>> \o split(SubSeq(s, i + 1, Len(s)))

\* s.replace('/', '_')
replace(s) == [i \in 1..Len(s) |-> IF s[i] = "/" THEN "_" ELSE s[i]]

\* '.'.join(buf)
RECURSIVE join(_)
join(buf) ==
    IF buf = <<>> THEN <<>>
    ELSE IF Len(buf) = 1 THEN buf[1]
    ELSE buf[1] \o <<".">> \o join(Tail(buf))

\* The string a character sequence spells, for comparison with literals.
RECURSIVE text(_)
text(cs) == IF cs = <<>> THEN "" ELSE Head(cs) \o text(Tail(cs))

\* The strings the inputs are built from.
s_us_east_1 == <<"u", "s", "-", "e", "a", "s", "t", "-", "1">>
s_Average == <<"A", "v", "e", "r", "a", "g", "e">>
s_Sum == <<"S", "u", "m">>
s_AWS_EC2 == <<"A", "W", "S", "/", "E", "C", "2">>
s_CPUUtilization ==
    <<"C", "P", "U", "U", "t", "i", "l", "i", "z", "a", "t", "i", "o", "n">>
s_InstanceId == <<"I", "n", "s", "t", "a", "n", "c", "e", "I", "d">>
s_ImageId == <<"I", "m", "a", "g", "e", "I", "d">>
s_i_1234 == <<"i", "-", "1", "2", "3", "4">>
s_web_1 == <<"w", "e", "b", "-", "1">>
s_a_slash_b == <<"a", "/", "b">>
s_slash == <<"/">>
s_root == <<"r", "o", "o", "t">>
s_w_slash_1 == <<"w", "/", "1">>
s_region == <<"r", "e", "g", "i", "o", "n">>
s_statistic == <<"s", "t", "a", "t", "i", "s", "t", "i", "c">>
s_namespace == <<"n", "a", "m", "e", "s", "p", "a", "c", "e">>
s_i_2 == <<"i", "-", "2">>

(***************************************************************************)
(* get_metrics                                                             *)
(***************************************************************************)

\* Bounds of the catalogue the service holds.
MaxPages == 3
MaxItemsPerPage == 2

\* The cursors of the pages, one per page that has a successor.
Cursors == <<"A", "B", "C", "D", "E">>
Items == {"m1", "m2"}
ItemLists == UNION {[1..n -> Items] : n \in 0..MaxItemsPerPage}

\* A chain of n pages: page k < n carries cursor k, the last one carries none
\* (None, or an empty token).
page_chain(n, its, last) ==
    [k \in 1..n |-> [items |-> its[k],
                     next_token |-> IF k < n THEN Cursors[k] ELSE last]]

\* The service's answer to list_metrics: the first page without a cursor, the
\* page after the one that carried the cursor otherwise.
list_metrics(pages, token) ==
    IF token = None THEN pages[1]
    ELSE pages[(CHOOSE k \in 1..Len(pages) : pages[k].next_token = token) + 1]

InitPages ==
    /\ IdleTag
    /\ IdleTime
    /\ IdleMain
    /\ gm_pc = "connect"
    /\ \E n \in 1..MaxPages :
          \E its \in [1..n -> ItemLists], last \in {None, ""} :
              gm_pages = page_chain(n, its, last)
    /\ gm_requests = <<>>
    /\ gm_buf = <<>>
    /\ gm_next_token = None
    /\ gm_result = None
    /\ gm_return = None

\* client = cloudwatch.connect_to_region(region); buf = []; next_token = None
GmConnect ==
    /\ gm_pc = "connect"
    /\ \E client \in {"client", None} :
          IF ~truthy(client)
          THEN /\ gm_pc' = "raised"
               /\ UNCHANGED <<gm_buf, gm_next_token>>
          ELSE /\ gm_pc' = "request"
               /\ gm_buf' = <<>>
               /\ gm_next_token' = None
    /\ UNCHANGED <<gm_pages, gm_requests, gm_result, gm_return>>
    /\ UNCHANGED <<tagVars, timeVars, mainVars>>

\* Mutant of GmListMetrics: buf = list(result) in place of buf += list(result).
GmListMetrics_overwrite ==
    /\ gm_pc = "request"
    /\ LET token == IF truthy(gm_next_token) THEN gm_next_token ELSE None
           result == list_metrics(gm_pages, token)
       IN  /\ gm_requests' = Append(gm_requests, token)
           /\ gm_result' = result
           /\ gm_buf' = result.items
    /\ gm_pc' = "test"
    /\ UNCHANGED <<gm_pages, gm_next_token, gm_return>>
    /\ UNCHANGED <<tagVars, timeVars, mainVars>>

\* One request of the loop: list_metrics with the cursor when there is one,
\* without it otherwise; buf += list(result).
GmListMetrics ==
    /\ gm_pc = "request"
    /\ LET token == IF truthy(gm_next_token) THEN gm_next_token ELSE None
           result == list_metrics(gm_pages, token)
       IN  /\ gm_requests' = Append(gm_requests, token)
           /\ gm_result' = result
           /\ gm_buf' = gm_buf \o result.items
    /\ gm_pc' = "test"
    /\ UNCHANGED <<gm_pages, gm_next_token, gm_return>>
    /\ UNCHANGED <<tagVars, timeVars, mainVars>>

\* if not result.next_token: break (and return buf); next_token = result.next_token
GmNextToken ==
    /\ gm_pc = "test"
    /\ IF ~truthy(gm_result.next_token)
       THEN /\ gm_pc' = "return"
            /\ gm_return' = gm_buf
            /\ UNCHANGED gm_next_token
       ELSE /\ gm_pc' = "request"
            /\ gm_next_token' = gm_result.next_token
            /\ UNCHANGED gm_return
    /\ UNCHANGED <<gm_pages, gm_requests, gm_buf, gm_result>>
    /\ UNCHANGED <<tagVars, timeVars, mainVars>>

NextPages == GmConnect \/ GmListMetrics \/ GmNextToken

SpecPages == InitPages /\ [][NextPages]_vars

(***************************************************************************)
(* get_time_range                                                          *)
(***************************************************************************)

\* Bounds of the clock (seconds) and of the interval (minutes).
MaxNow == 200
MaxInterval == 3

\* timedelta(minutes=n), in seconds.
timedelta_minutes(n) == n * 60

\* RichDateTime % timedelta: the time truncated to a multiple of the interval.
rich_mod(t, d) == t - (t % d)

\* Mutant of get_time_range: the truncated time is not stepped back.
get_time_range_current(time_str, interval, now) ==
    LET d == timedelta_minutes(interval)
        t == rich_mod(now, d)
    IN  <<t, t + d>>

\* get_time_range when time_str is not given: t = (now % d) - d, and the pair
\* (t, t + d).  Times are seconds since the epoch.  The branch that parses an
\* explicit time_str (RichDateTime.strptime) is not modelled.
get_time_range(time_str, interval, now) ==
    LET d == timedelta_minutes(interval)
        t == rich_mod(now, d) - d
    IN  <<t, t + d>>

InitTime ==
    /\ IdleTag
    /\ IdlePages
    /\ IdleMain
    /\ tr_pc = "call"
    /\ tr_time_str \in {None, ""}
    /\ tr_interval \in 1..MaxInterval
    /\ tr_now \in 0..MaxNow
    /\ tr_return = None

GetTimeRange ==
    /\ tr_pc = "call"
    /\ ~truthy(tr_time_str)
    /\ tr_return' = get_time_range(tr_time_str, tr_interval, tr_now)
    /\ tr_pc' = "return"
    /\ UNCHANGED <<tr_time_str, tr_interval, tr_now>>
    /\ UNCHANGED <<tagVars, pageVars, mainVars>>

NextTime == GetTimeRange

SpecTime == InitTime /\ [][NextTime]_vars

(***************************************************************************)
(* metric_to_tag                                                           *)
(***************************************************************************)

\* names.get(s, s)
names_get(names, s) == IF s \in DOMAIN names THEN names[s] ELSE s

\* Mutant of dim_token: the resolved name is emitted as it is.
dim_token_unsanitized(s, names) ==
    IF s = s_slash THEN s_root ELSE names_get(names, s)

\* 'root' if s == '/' else names.get(s, s).replace('/', '_')
dim_token(s, names) ==
    IF s = s_slash THEN s_root ELSE replace(names_get(names, s))

\* sorted(metric.dimensions.items()): the keys are distinct, so the pairs are
\* ordered by key alone.
RECURSIVE sorted_keys(_)
sorted_keys(keys) ==
    IF keys = {} THEN <<>>
    ELSE LET k == CHOOSE x \in keys : \A y \in keys \ {x} : str_lt(x, y)
         IN  <<k>> \o sorted_keys(keys \ {k})

\* The tokens the loop over the sorted dimensions appends to buf.
RECURSIVE dim_tokens(_, _, _)
dim_tokens(keys, dimensions, names) ==
    IF keys = <<>> THEN <<>>
    ELSE [i \in 1..Len(dimensions[Head(keys)]) |->
              dim_token(dimensions[Head(keys)][i], names)]
         \o dim_tokens(Tail(keys), dimensions, names)

\* Mutant of metric_to_tag_buf: the statistic is appended before the region.
metric_to_tag_buf_swapped(metric, statistics, names) ==
    <<statistics, metric.region>>
        \o split(metric.namespace)
        \o dim_tokens(sorted_keys(DOMAIN metric.dimensions), metric.dimensions, names)
        \o <<metric.name>>

\* buf as metric_to_tag has built it when it joins it.
metric_to_tag_buf(metric, statistics, names) ==
    <<metric.region, statistics>>
        \o split(metric.namespace)
        \o dim_tokens(sorted_keys(DOMAIN metric.dimensions), metric.dimensions, names)
        \o <<metric.name>>

metric_to_tag(metric, statistics, names) ==
    join(metric_to_tag_buf(metric, statistics, names))

\* Bounds of the inputs of metric_to_tag.
MaxValues == 2

TagRegions == {s_us_east_1}
TagStatistics == {s_Average, s_Sum}
TagNamespaces == {s_AWS_EC2, <<"/", "E", "C", "2">>, <<"A", "W", "S">>}
TagKeys == {s_InstanceId, s_ImageId}
TagValues == {s_i_1234, s_a_slash_b, s_slash}
TagValueLists == UNION {[1..n -> TagValues] : n \in 1..MaxValues}
TagDimensions == UNION {[K -> TagValueLists] : K \in SUBSET TagKeys}
TagNameTables ==
    { <<>>,
      [k \in {s_i_1234} |-> s_web_1],
      [k \in {s_i_1234} |-> s_w_slash_1],
      [k \in {s_a_slash_b} |-> s_web_1] }

TagMetrics ==
    [region : TagRegions, namespace : TagNamespaces,
     name : {s_CPUUtilization}, dimensions : TagDimensions]

InitTag ==
    /\ IdlePages
    /\ IdleTime
    /\ IdleMain
    /\ tag_pc = "call"
    /\ tag_metric \in TagMetrics
    /\ tag_statistics \in TagStatistics
    /\ tag_ec2_names \in TagNameTables
    /\ tag_buf = <<>>
    /\ tag_result = <<>>

MetricToTag ==
    /\ tag_pc = "call"
    /\ tag_buf' = metric_to_tag_buf(tag_metric, tag_statistics, tag_ec2_names)
    /\ tag_result' = metric_to_tag(tag_metric, tag_statistics, tag_ec2_names)
    /\ tag_pc' = "return"
    /\ UNCHANGED <<tag_metric, tag_statistics, tag_ec2_names>>
    /\ UNCHANGED <<pageVars, timeVars, mainVars>>

NextTag == MetricToTag

SpecTag == InitTag /\ [][NextTag]_vars

(***************************************************************************)
(* main, get_data and the sinks                                            *)
(***************************************************************************)

\* Bound of a run: the datapoints one statistics query returns.
MaxDatapoints == 2

\* The periods (minutes) the runs are started with.
Periods == {5, 1440, 1445}

\* The clock when main computes the window.
MainNows == {7384}

statistics_list == <<s_Average, s_Sum>>

\* The metrics of the region: an EC2 metric with one dimension, and a custom
\* metric with two dimensions, one of them named region.
MetricPool ==
    { [region |-> s_us_east_1, namespace |-> s_AWS_EC2, name |-> s_CPUUtilization,
       dimensions |-> [k \in {s_InstanceId} |-> <<s_i_1234>>]],
      [region |-> s_us_east_1, namespace |-> s_a_slash_b, name |-> s_Sum,
       dimensions |-> [k \in {s_ImageId, s_region} |->
                          IF k = s_ImageId THEN <<s_a_slash_b, s_slash>>
                          ELSE <<s_web_1>>]] }

\* The sequences without repetition over a set.
Orders(S) ==
    {s \in [1..Cardinality(S) -> S] : \A i, j \in 1..Cardinality(S) : i # j => s[i] # s[j]}

\* What get_metrics can return: the service lists each metric once, some or
\* all of the pool, in an order of its own.
MetricLists == UNION {Orders(S) : S \in SUBSET MetricPool}

\* The instances of the region: one with a Name tag, one without.
Instances ==
    { [id |-> s_i_1234, tags |-> [k \in {"Name"} |-> s_web_1]],
      [id |-> s_i_2, tags |-> [k \in {"Owner"} |-> s_web_1]] }

\* dict((x.id, x.tags.get('Name')) for x in instances if x.tags.get('Name'))
get_ec2_names(instances) ==
    LET named == {x \in instances : "Name" \in DOMAIN x.tags /\ x.tags["Name"] # <<>>}
    IN  [i \in {x.id : x \in named} |->
            (CHOOSE x \in named : x.id = i).tags["Name"]]

\* parse_args: the options a run can be started with.  --output is a choice
\* option, so no other value reaches main and its last else branch (Invalid
\* output option) is never taken.
OptionSets ==
    [region : {s_us_east_1}, time : {None}, interval : {60}, period : Periods,
     resolve : BOOLEAN, check : BOOLEAN, output : {"graphite-text", "influxdb"},
     influxdb_database : {"cloudwatch"}]

\* What create_database can do: return, or raise InfluxDBClientError because
\* the database exists or for another reason, or raise another exception.
CreateOutcomes ==
    { [raises |-> None, reason |-> None],
      [raises |-> "InfluxDBClientError", reason |-> "database already exists"],
      [raises |-> "InfluxDBClientError", reason |-> "authorization failed"],
      [raises |-> "ConnectionError", reason |-> "connection refused"] }

\* timedelta(minutes=n).seconds: the seconds left over after the whole days.
timedelta_seconds(n) == (n * 60) % (24 * 60 * 60)

\* The pairs of get_data's params, metrics in the outer loop and statistics
\* in the inner one.
NumPairs == Len(metrics) * Len(statistics_list)
pair_metric(k) == metrics[((k - 1) \div Len(statistics_list)) + 1]
pair_statistics(k) == statistics_list[((k - 1) % Len(statistics_list)) + 1]

\* m.dimensions.keys(): the order is the dict's own, the same at every call;
\* which order it is depends on the interpreter's hashing.
DictOrders ==
    {f \in [{DOMAIN m.dimensions : m \in MetricPool} ->
                UNION {Orders(DOMAIN m.dimensions) : m \in MetricPool}] :
        \A K \in DOMAIN f : f[K] \in Orders(K)}

InitMain ==
    /\ IdleTag
    /\ IdlePages
    /\ IdleTime
    /\ pc = "get_time_range"
    /\ options \in OptionSets
    /\ window = None
    /\ metrics = <<>>
    /\ ec2_names = <<>>
    /\ ret = <<>>
    /\ keys_order = <<>>
    /\ pair = 0
    /\ pending = <<>>
    /\ queries = <<>>
    /\ stdout = <<>>
    /\ influx = <<>>
    /\ returned = 0
    /\ handled = 0
    /\ create_outcome = NotCalled
    /\ query_failed = FALSE

\* start, end = get_time_range(options.time, options.interval)
MainGetTimeRange ==
    /\ pc = "get_time_range"
    /\ \E now \in MainNows :
          window' = get_time_range(options.time, options.interval, now)
    /\ pc' = "get_metrics"
    /\ UNCHANGED <<returned, keys_order, options, metrics, ec2_names, ret, pair, pending, queries,
                   stdout, influx, handled, create_outcome, query_failed>>
    /\ UNCHANGED <<tagVars, pageVars, timeVars>>

\* metrics = get_metrics(options.region): the list, or the exception of a
\* failed connection.
MainGetMetrics ==
    /\ pc = "get_metrics"
    /\ \/ /\ \E ms \in MetricLists : metrics' = ms
          /\ keys_order' \in DictOrders
          /\ pc' = "get_ec2_names"
       \/ /\ pc' = "failed"
          /\ UNCHANGED <<metrics, keys_order>>
    /\ UNCHANGED <<returned, options, window, ec2_names, ret, pair, pending, queries,
                   stdout, influx, handled, create_outcome, query_failed>>
    /\ UNCHANGED <<tagVars, pageVars, timeVars>>

\* ec2_names = get_ec2_names(options.region) if options.resolve else {}
MainGetEc2Names ==
    /\ pc = "get_ec2_names"
    /\ ec2_names' = IF options.resolve THEN get_ec2_names(Instances) ELSE <<>>
    /\ pc' = "branch"
    /\ UNCHANGED <<returned, keys_order, options, window, metrics, ret, pair, pending, queries,
                   stdout, influx, handled, create_outcome, query_failed>>
    /\ UNCHANGED <<tagVars, pageVars, timeVars>>

\* The lines of check mode: the window, the period, the name table, and one
\* line for each of query_params.
check_lines ==
    << [line |-> "start", value |-> window[1]],
       [line |-> "end", value |-> window[2]],
       [line |-> "period", value |-> options.period],
       [line |-> "ec2 names", value |-> ec2_names] >>
    \o [k \in 1..NumPairs |->
           [line |-> "will collect metric",
            value |-> text(metric_to_tag(pair_metric(k), pair_statistics(k), ec2_names))]]

\* Mutant of MainCheck: the listing is followed by the text sink.
MainCheck_then_collect ==
    /\ pc = "branch"
    /\ options.check
    /\ stdout' = stdout \o check_lines
    /\ pc' = "collect"
    /\ UNCHANGED ret
    /\ UNCHANGED <<returned, keys_order, options, window, metrics, ec2_names, pair, pending, queries,
                   influx, handled, create_outcome, query_failed>>
    /\ UNCHANGED <<tagVars, pageVars, timeVars>>

\* if options.check: print the query params, then return 0
MainCheck ==
    /\ pc = "branch"
    /\ options.check
    /\ stdout' = stdout \o check_lines
    /\ pc' = "done"
    /\ ret' = <<0>>
    /\ UNCHANGED <<returned, keys_order, options, window, metrics, ec2_names, pair, pending, queries,
                   influx, handled, create_outcome, query_failed>>
    /\ UNCHANGED <<tagVars, pageVars, timeVars>>

\* options.output == 'graphite-text': enter the loop over get_data
MainGraphite ==
    /\ pc = "branch"
    /\ ~options.check
    /\ options.output = "graphite-text"
    /\ pc' = "collect"
    /\ UNCHANGED <<returned, keys_order, options, window, metrics, ec2_names, ret, pair, pending, queries,
                   stdout, influx, handled, create_outcome, query_failed>>
    /\ UNCHANGED <<tagVars, pageVars, timeVars>>

\* options.output == 'influxdb': create_database inside try / except
\* InfluxDBClientError: pass, then enter the loop over get_data
MainCreateDatabase ==
    /\ pc = "branch"
    /\ ~options.check
    /\ options.output = "influxdb"
    /\ \E outcome \in CreateOutcomes :
          /\ create_outcome' = outcome
          /\ pc' = IF outcome.raises \in {None, "InfluxDBClientError"}
                   THEN "collect" ELSE "failed"
    /\ influx' = Append(influx, [call |-> "create_database",
                                 name |-> options.influxdb_database])
    /\ UNCHANGED <<returned, keys_order, options, window, metrics, ec2_names, ret, pair, pending, queries,
                   stdout, handled, query_failed>>
    /\ UNCHANGED <<tagVars, pageVars, timeVars>>

\* The query get_metric_statistics sends for pair k.
query_of(k) ==
    [metric |-> (k - 1) \div Len(statistics_list) + 1,
     statistics |-> text(pair_statistics(k)),
     start_time |-> window[1], end_time |-> window[2],
     unit |-> None, period |-> timedelta_seconds(options.period)]

\* map(f, datapoints): the tuples of the n datapoints a query returned.
datapoints_of(k, n) ==
    [i \in 1..n |-> [metric |-> pair_metric(k), statistics |-> pair_statistics(k),
                     value |-> 10 * i, t |-> window[1] + i]]

\* Mutant of GetDataQuery: an eager get_data, which queries the next pair
\* while datapoints of an earlier one are still to be consumed.
GetDataQuery_eager ==
    /\ pc = "collect"
    /\ pair < NumPairs
    /\ pair' = pair + 1
    /\ queries' = Append(queries, query_of(pair + 1))
    /\ \/ /\ query_failed' = TRUE
          /\ pc' = "failed"
          /\ UNCHANGED <<pending, returned>>
       \/ /\ \E n \in 0..MaxDatapoints :
                /\ pending' = pending \o datapoints_of(pair + 1, n)
                /\ returned' = returned + n
          /\ UNCHANGED <<pc, query_failed>>
    /\ UNCHANGED <<keys_order, options, window, metrics, ec2_names, ret, stdout, influx,
                   handled, create_outcome>>
    /\ UNCHANGED <<tagVars, pageVars, timeVars>>

\* Mutant of GetDataQuery: a failing query is skipped and the run goes on.
GetDataQuery_skip_failure ==
    /\ pc = "collect"
    /\ pending = <<>>
    /\ pair < NumPairs
    /\ pair' = pair + 1
    /\ queries' = Append(queries, query_of(pair + 1))
    /\ \/ /\ query_failed' = TRUE
          /\ UNCHANGED <<pc, pending, returned>>
       \/ /\ \E n \in 0..MaxDatapoints :
                /\ pending' = datapoints_of(pair + 1, n)
                /\ returned' = returned + n
          /\ UNCHANGED <<pc, query_failed>>
    /\ UNCHANGED <<keys_order, options, window, metrics, ec2_names, ret, stdout, influx,
                   handled, create_outcome>>
    /\ UNCHANGED <<tagVars, pageVars, timeVars>>

\* The generator of get_data asked for a value with nothing left of the
\* current pair: the next param is taken and get_metric_statistics queries
\* it; metric.query raises, or the datapoints come back and are mapped.
GetDataQuery ==
    /\ pc = "collect"
    /\ pending = <<>>
    /\ pair < NumPairs
    /\ pair' = pair + 1
    /\ queries' = Append(queries, query_of(pair + 1))
    /\ \/ /\ query_failed' = TRUE
          /\ pc' = "failed"
          /\ UNCHANGED <<pending, returned>>
       \/ /\ \E n \in 0..MaxDatapoints :
                /\ pending' = datapoints_of(pair + 1, n)
                /\ returned' = returned + n
          /\ UNCHANGED <<pc, query_failed>>
    /\ UNCHANGED <<keys_order, options, window, metrics, ec2_names, ret, stdout, influx,
                   handled, create_outcome>>
    /\ UNCHANGED <<tagVars, pageVars, timeVars>>

\* print_data(data, ec2_names) on the next value of the generator
PrintData ==
    /\ pc = "collect"
    /\ options.output = "graphite-text"
    /\ pending # <<>>
    /\ LET data == Head(pending)
       IN  stdout' = Append(stdout,
               [line |-> "data",
                tag |-> text(metric_to_tag(data.metric, data.statistics, ec2_names)),
                value |-> data.value, time |-> data.t])
    /\ pending' = Tail(pending)
    /\ handled' = handled + 1
    /\ UNCHANGED <<returned, keys_order, pc, options, window, metrics, ec2_names, ret, pair, queries,
                   influx, create_outcome, query_failed>>
    /\ UNCHANGED <<tagVars, pageVars, timeVars>>

\* The dict literal of the tags: the entry of the dimension key is the last
\* one, and replaces an earlier entry with the same key.
influx_tags(m, s, region, d) ==
    [k \in {s_statistic, s_namespace, s_region, d} |->
        IF k = d THEN join(m.dimensions[d])
        ELSE IF k = s_statistic THEN s
        ELSE IF k = s_namespace THEN m.namespace
        ELSE region]

\* The write_points calls of write_data_to_influxdb for one datapoint, the
\* dimension keys taken in the order ks.
influx_writes(data, region, ks) ==
    [i \in 1..Len(ks) |->
        [call |-> "write_points",
         points |-> << [measurement |-> data.metric.name,
                        tags |-> influx_tags(data.metric, data.statistics, region, ks[i]),
                        time |-> data.t,
                        fields |-> [value |-> data.value]] >>,
         time_precision |-> "s"]]

\* write_data_to_influxdb(client, options.region, data, ec2_names, False) on
\* the next value of the generator.  main passes debug = False, so the
\* printing branch is never taken.
WriteDataToInfluxdb ==
    /\ pc = "collect"
    /\ options.output = "influxdb"
    /\ pending # <<>>
    /\ influx' = influx \o influx_writes(Head(pending), options.region,
                                         keys_order[DOMAIN Head(pending).metric.dimensions])
    /\ pending' = Tail(pending)
    /\ handled' = handled + 1
    /\ UNCHANGED <<returned, keys_order, pc, options, window, metrics, ec2_names, ret, pair, queries,
                   stdout, create_outcome, query_failed>>
    /\ UNCHANGED <<tagVars, pageVars, timeVars>>

\* The generator is exhausted: the loop ends and main returns 0.
MainReturn ==
    /\ pc = "collect"
    /\ pending = <<>>
    /\ pair = NumPairs
    /\ pc' = "done"
    /\ ret' = <<0>>
    /\ UNCHANGED <<returned, keys_order, options, window, metrics, ec2_names, pair, pending, queries,
                   stdout, influx, handled, create_outcome, query_failed>>
    /\ UNCHANGED <<tagVars, pageVars, timeVars>>

Next ==
    \/ MainGetTimeRange
    \/ MainGetMetrics
    \/ MainGetEc2Names
    \/ MainCheck
    \/ MainGraphite
    \/ MainCreateDatabase
    \/ GetDataQuery
    \/ PrintData
    \/ WriteDataToInfluxdb
    \/ MainReturn

Spec == InitMain /\ [][Next]_vars

(***************************************************************************)
(* Claims about metric_to_tag                                              *)
(***************************************************************************)

\* The string of the parts joined with dots.
RECURSIVE DotText(_)
DotText(parts) ==
    IF parts = <<>> THEN ""
    ELSE IF Len(parts) = 1 THEN text(parts[1])
    ELSE text(parts[1]) \o "." \o DotText(Tail(parts))

\* Piece k of a namespace: its characters that are no slash and have exactly
\* k - 1 slashes before them.
RECURSIVE Piece(_, _, _)
Piece(s, k, seen) ==
    IF s = <<>> THEN <<>>
    ELSE IF Head(s) = "/" THEN Piece(Tail(s), k, seen + 1)
    ELSE IF seen = k - 1 THEN <<Head(s)>> \o Piece(Tail(s), k, seen)
    ELSE Piece(Tail(s), k, seen)

NamespaceSegments(ns) ==
    [k \in 1..(Cardinality({i \in 1..Len(ns) : ns[i] = "/"}) + 1) |-> Piece(ns, k, 0)]

\* The keys of a set, each before every greater one.
AscendingKeys(K) ==
    CHOOSE s \in [1..Cardinality(K) -> K] :
        \A i, j \in 1..Cardinality(K) : i < j => str_lt(s[i], s[j])

RECURSIVE Flatten(_)
Flatten(lists) == IF lists = <<>> THEN <<>> ELSE Head(lists) \o Flatten(Tail(lists))

\* The values of the dimensions, dimension by dimension in ascending key order.
ValuesInKeyOrder(dimensions) ==
    LET ks == AscendingKeys(DOMAIN dimensions)
    IN  Flatten([i \in 1..Len(ks) |-> dimensions[ks[i]]])

HasSlash(s) == \E i \in 1..Len(s) : s[i] = "/"

\* The token of one dimension value, as the claims describe it.
ValueToken(v, names) ==
    IF v = s_slash THEN s_root
    ELSE LET chosen == IF v \in DOMAIN names THEN names[v] ELSE v
         IN  [i \in 1..Len(chosen) |-> IF chosen[i] = "/" THEN "_" ELSE chosen[i]]

\* The tokens metric_to_tag emitted for the dimension values: what buf holds
\* between the namespace segments and the metric name.
EmittedDimTokens ==
    SubSeq(tag_buf, 3 + Len(NamespaceSegments(tag_metric.namespace)), Len(tag_buf) - 1)

ExampleMetric ==
    [region |-> s_us_east_1, namespace |-> s_AWS_EC2, name |-> s_CPUUtilization,
     dimensions |-> [k \in {s_InstanceId} |-> <<s_i_1234>>]]

ExampleTable == [k \in {s_i_1234} |-> s_web_1]

\* C2: the tag is the dot-join of region, statistic, the namespace segments,
\* the value tokens of the dimensions in ascending key order, and the metric
\* name, in this order; the AWS/EC2 example gives
\* us-east-1.Average.AWS.EC2.i-1234.CPUUtilization without a name table and
\* us-east-1.Average.AWS.EC2.web-1.CPUUtilization with i-1234 -> web-1.
C2_TagComponentsInOrder ==
    tag_pc = "return" =>
        /\ text(tag_result) =
              DotText(<<tag_metric.region, tag_statistics>>
                      \o NamespaceSegments(tag_metric.namespace)
                      \o [i \in 1..Len(ValuesInKeyOrder(tag_metric.dimensions)) |->
                             ValueToken(ValuesInKeyOrder(tag_metric.dimensions)[i],
                                        tag_ec2_names)]
                      \o <<tag_metric.name>>)
        /\ (tag_metric = ExampleMetric /\ tag_statistics = s_Average) =>
              /\ tag_ec2_names = <<>> =>
                    text(tag_result) = "us-east-1.Average.AWS.EC2.i-1234.CPUUtilization"
              /\ tag_ec2_names = ExampleTable =>
                    text(tag_result) = "us-east-1.Average.AWS.EC2.web-1.CPUUtilization"

\* The example metric has been formatted with the table i-1234 -> web-1.
C2_Witness ==
    /\ tag_pc = "return"
    /\ tag_metric = ExampleMetric
    /\ tag_statistics = s_Average
    /\ tag_ec2_names = ExampleTable
    /\ text(tag_result) = "us-east-1.Average.AWS.EC2.web-1.CPUUtilization"

\* C3: no token emitted for a dimension value contains a slash; the value "/"
\* gives the token root, and any other value gives its resolved name (or itself)
\* with every slash replaced by an underscore, so a/b gives a_b.
C3_DimTokensHaveNoSlash ==
    tag_pc = "return" =>
        LET vals == ValuesInKeyOrder(tag_metric.dimensions)
            toks == EmittedDimTokens
        IN  /\ Len(toks) = Len(vals)
            /\ \A i \in 1..Len(toks) :
                  /\ ~HasSlash(toks[i])
                  /\ vals[i] = s_slash => text(toks[i]) = "root"
                  /\ vals[i] # s_slash => toks[i] = ValueToken(vals[i], tag_ec2_names)
                  /\ (vals[i] = s_a_slash_b /\ vals[i] \notin DOMAIN tag_ec2_names) =>
                        text(toks[i]) = "a_b"

\* A metric with the values "/", "a/b" and an identifier whose resolved name
\* holds a slash has been formatted.
C3_Witness ==
    /\ tag_pc = "return"
    /\ s_a_slash_b \notin DOMAIN tag_ec2_names
    /\ s_i_1234 \in DOMAIN tag_ec2_names
    /\ HasSlash(tag_ec2_names[s_i_1234])
    /\ \E k \in DOMAIN tag_metric.dimensions :
          tag_metric.dimensions[k] = <<s_slash, s_a_slash_b>>
    /\ \E k \in DOMAIN tag_metric.dimensions :
          \E i \in 1..Len(tag_metric.dimensions[k]) :
              tag_metric.dimensions[k][i] = s_i_1234
    /\ Len(EmittedDimTokens) >= 3

(***************************************************************************)
(* Claims about get_metrics and get_time_range                             *)
(***************************************************************************)

RECURSIVE AllItems(_)
AllItems(pages) ==
    IF pages = <<>> THEN <<>> ELSE Head(pages).items \o AllItems(Tail(pages))

\* C1: over a chain of n pages get_metrics issues exactly n requests, the
\* first without a cursor and request k + 1 with the cursor of page k, never
\* more than n, and returns the items of all n pages in page order.
C1_PaginationCollectsAllPages ==
    LET n == Len(gm_pages)
    IN  /\ Len(gm_requests) <= n
        /\ \A k \in 1..Len(gm_requests) :
              gm_requests[k] = IF k = 1 THEN None ELSE gm_pages[k - 1].next_token
        /\ gm_pc \in {"request", "test"} => ENABLED NextPages
        /\ gm_pc = "return" =>
              /\ Len(gm_requests) = n
              /\ gm_return = AllItems(gm_pages)

\* get_metrics has returned from a chain of three pages that all hold items.
C1_Witness ==
    /\ gm_pc = "return"
    /\ Len(gm_pages) = 3
    /\ \A k \in 1..3 : gm_pages[k].items # <<>>
    /\ gm_requests = <<None, "A", "B">>
    /\ Len(gm_return) >= 3

\* C8: without an explicit time the window is [truncated - interval,
\* truncated] with truncated = now - (now mod interval): it ends at or before
\* now, starts before it ends, and is exactly one interval wide.
C8_WindowIsLastCompletedInterval ==
    tr_pc = "return" =>
        LET d == tr_interval * 60
            truncated == tr_now - (tr_now % d)
            start == tr_return[1]
            end == tr_return[2]
        IN  /\ end = truncated
            /\ start = truncated - d
            /\ end <= tr_now
            /\ start < end
            /\ end - start = d

\* The window was computed at a time that is no multiple of the interval.
C8_Witness ==
    /\ tr_pc = "return"
    /\ tr_interval = 2
    /\ tr_now = 130
    /\ tr_return = <<0, 120>>

(***************************************************************************)
(* Claims about main, get_data and the sinks                               *)
(***************************************************************************)

\* C4: in check mode main issues no statistics query and hands nothing to a
\* sink (no data line, no create_database, no write_points), whatever the
\* metrics and the output mode; it prints the window, the period, the name
\* table and one tag per (metric, statistic) pair, and returns 0.
C4_CheckModeQueriesNothing ==
    options.check =>
        /\ queries = <<>>
        /\ influx = <<>>
        /\ handled = 0
        /\ \A i \in 1..Len(stdout) : stdout[i].line # "data"
        /\ pc \notin {"collect"}
        /\ pc = "done" =>
              /\ ret = <<0>>
              /\ Len(stdout) = 4 + 2 * Len(metrics)
              /\ stdout[1] = [line |-> "start", value |-> window[1]]
              /\ stdout[2] = [line |-> "end", value |-> window[2]]
              /\ stdout[3] = [line |-> "period", value |-> options.period]
              /\ stdout[4] = [line |-> "ec2 names", value |-> ec2_names]
              /\ \A i \in 1..Len(metrics) : \A j \in 1..2 :
                    stdout[4 + 2 * (i - 1) + j] =
                        [line |-> "will collect metric",
                         value |-> text(metric_to_tag(metrics[i], statistics_list[j],
                                                      ec2_names))]

\* A check run over two metrics, started with the influxdb output, is over.
C4_Witness ==
    /\ options.check
    /\ options.output = "influxdb"
    /\ pc = "done"
    /\ Len(metrics) = 2
    /\ Len(stdout) = 8

\* C5: a create_database failure that says the database exists is ignored and
\* the run goes on; a failure for any other reason ends the run in failure,
\* and no write_points call is ever made.
C5_OnlyAlreadyExistsIsIgnored ==
    create_outcome.raises # None =>
        IF create_outcome.reason = "database already exists"
        THEN pc = "failed" => query_failed
        ELSE /\ pc = "failed"
             /\ \A i \in 1..Len(influx) : influx[i].call # "write_points"

\* The write_points call c is the record of dimension key d of the datapoint.
IsRecordOf(c, data, d) ==
    /\ c.call = "write_points"
    /\ Len(c.points) = 1
    /\ LET r == c.points[1]
       IN  /\ r.measurement = data.metric.name
           /\ DOMAIN r.fields = {"value"}
           /\ r.fields.value = data.value
           /\ DOMAIN r.tags = {s_statistic, s_namespace, s_region, d}
           /\ r.tags[s_statistic] = data.statistics
           /\ r.tags[s_namespace] = data.metric.namespace
           /\ r.tags[s_region] = options.region
           /\ text(r.tags[d]) = DotText(data.metric.dimensions[d])

\* C6: for a datapoint whose metric has k dimension keys
\* write_data_to_influxdb makes exactly k write_points calls, one for each
\* key, each a batch of one record with the metric name as measurement, the
\* single field value, and the tags statistic, namespace, region and that one
\* key with its values joined by dots.
C6_OneRecordPerDimensionKey ==
    [][(options.output = "influxdb" /\ handled' = handled + 1) =>
          LET data == Head(pending)
              K == DOMAIN data.metric.dimensions
              new == SubSeq(influx', Len(influx) + 1, Len(influx'))
          IN  /\ Len(new) = Cardinality(K)
              /\ \E ks \in Orders(K) :
                    \A i \in 1..Len(new) : IsRecordOf(new[i], data, ks[i])]_vars

\* C7: every statistics query carries the period period_minutes * 60.
C7_PeriodIsMinutesTimes60 ==
    \A i \in 1..Len(queries) : queries[i].period = options.period * 60

\* C9: once a statistics query has failed the run has ended in failure
\* without a return value; the failing step adds no sink output and undoes
\* none, and afterwards no query is issued and no sink output is produced.
C9_QueryFailureAbortsRun ==
    /\ [](query_failed => pc = "failed" /\ ret = <<>>)
    /\ [][query_failed' =>
            /\ stdout' = stdout
            /\ influx' = influx
            /\ handled' = handled
            /\ query_failed => queries' = queries]_vars

\* A query failed after datapoints of earlier pairs had reached the sink and
\* with pairs still to be queried.
C9_Witness ==
    /\ query_failed
    /\ pc = "failed"
    /\ handled >= 2
    /\ Len(queries) >= 2
    /\ Len(queries) < NumPairs
    /\ stdout # <<>>

\* C10: the queries are issued one per pair, metrics in the outer loop and
\* statistics in the inner one, all of them in a run that completes; a query
\* is issued only when every datapoint returned so far has been handed to the
\* sink, and what is buffered belongs to the pair queried last.
C10_OneQueryPerPairInOrder ==
    /\ [](/\ \A i \in 1..Len(queries) :
               /\ queries[i].metric = ((i - 1) \div 2) + 1
               /\ queries[i].statistics = (IF i % 2 = 1 THEN "Average" ELSE "Sum")
          /\ Len(queries) <= 2 * Len(metrics)
          /\ (pc = "done" /\ ~options.check) => Len(queries) = 2 * Len(metrics)
          /\ \A i \in 1..Len(pending) :
               /\ pending[i].metric = metrics[((Len(queries) - 1) \div 2) + 1]
               /\ text(pending[i].statistics) = queries[Len(queries)].statistics
          /\ returned = handled + Len(pending))
    /\ [][queries' # queries =>
            /\ Len(queries') = Len(queries) + 1
            /\ pending = <<>>
            /\ handled = returned]_vars

\* A run over two metrics has completed with four queries, some of which
\* returned two datapoints.
C10_Witness ==
    /\ pc = "done"
    /\ ~options.check
    /\ Len(metrics) = 2
    /\ Len(queries) = 4
    /\ handled >= 5

=============================================================================
